---- MODULE Spec2Model ----
(***************************************************************************)
(* A model of src/main.rs: the axum router, its six handlers, the error    *)
(* mapper AppError::into_response and the lifecycle of main.               *)
(*                                                                         *)
(* Text.  A Rust String is modelled as a sequence of segments, each a text *)
(* unit c repeated n times (a run-length encoding, so that names around    *)
(* the 50-byte limit stay small values).  A unit is an ASCII text, or the  *)
(* two-byte character U+00E9.  str::len is the UTF-8 byte count, str::trim *)
(* strips leading and trailing whitespace, format! concatenates.           *)
(***************************************************************************)
EXTENDS Integers, Sequences, FiniteSets, TLC

VARIABLES pc, bind_result, exit_code, log, stderr, mapped, inflight, history

vars == <<pc, bind_result, exit_code, log, stderr, mapped, inflight, history>>

----------------------------------------------------------------------------
(* Bounds of the model *)

\* longest name, in segments
MaxRuns == 3
\* requests being handled at the same time (SpecConc)
MaxInflight == 2

----------------------------------------------------------------------------
(* Strings *)

Seg(c, n) == [c |-> c, n |-> n]

Lit(s) == <<Seg(s, 1)>>

EmptyStr == <<>>

\* a unit's length in UTF-8 bytes: U+00E9 takes two
Utf8Bytes(c) == IF c = "U+00E9" THEN 2 ELSE Len(c)

RECURSIVE ByteLen(_)
\* str::len / String::len: the length in bytes
ByteLen(s) == IF s = <<>> THEN 0
              ELSE Head(s).n * Utf8Bytes(Head(s).c) + ByteLen(Tail(s))

IsWhitespace(c) == c = " "

RECURSIVE TrimStart(_)
TrimStart(s) == IF s = <<>> THEN s
                ELSE IF IsWhitespace(Head(s).c) THEN TrimStart(Tail(s)) ELSE s

RECURSIVE TrimEnd(_)
TrimEnd(s) == IF s = <<>> THEN s
              ELSE IF IsWhitespace(s[Len(s)].c) THEN TrimEnd(SubSeq(s, 1, Len(s) - 1))
              ELSE s

\* str::trim
Trim(s) == TrimEnd(TrimStart(s))

\* str::is_empty
IsEmpty(s) == s = <<>>

\* Display of a u8 in format!
FmtU8(n) == Lit(ToString(n))

----------------------------------------------------------------------------
(* AppError and its IntoResponse *)

ValidationError(msg) == [tag |-> "ValidationError", msg |-> msg]

NotFound(msg) == [tag |-> "NotFound", msg |-> msg]

InternalError == [tag |-> "InternalError", msg |-> EmptyStr]

BAD_REQUEST == 400

NOT_FOUND == 404

INTERNAL_SERVER_ERROR == 500

OK == 200

CREATED == 201

METHOD_NOT_ALLOWED == 405

\* a response: the status, the shape of the body and the text it carries
\* (kind "text": text/plain; "message": {"message": text}; "error": {"error": text};
\*  "empty": no body)
Response(status, kind, text) == [status |-> status, kind |-> kind, text |-> text]

\* the mapper with a validation error sent to 500
into_response_validation500(e) ==
    IF e.tag = "ValidationError" THEN Response(INTERNAL_SERVER_ERROR, "error", e.msg)
    ELSE IF e.tag = "NotFound" THEN Response(NOT_FOUND, "error", e.msg)
    ELSE Response(INTERNAL_SERVER_ERROR, "error", Lit("Internal Server Error"))

into_response(e) ==
    IF e.tag = "ValidationError" THEN Response(BAD_REQUEST, "error", e.msg)
    ELSE IF e.tag = "NotFound" THEN Response(NOT_FOUND, "error", e.msg)
    ELSE Response(INTERNAL_SERVER_ERROR, "error", Lit("Internal Server Error"))

\* Result<T, AppError>
Ok(status, kind, text) == [ok |-> TRUE, resp |-> Response(status, kind, text),
                           err |-> InternalError]

Err(e) == [ok |-> FALSE, resp |-> Response(0, "empty", EmptyStr), err |-> e]

\* IntoResponse for Result<T, AppError>
ResultResponse(r) == IF r.ok THEN r.resp ELSE into_response(r.err)

\* what a handler did: its Result and the tracing lines it emitted at INFO or above
Out(res, lines) == [res |-> res, lines |-> lines]

MAX_NAME_LEN == 50

MAX_AGE == 120

----------------------------------------------------------------------------
(* Handlers *)

root == Out(Ok(OK, "text", Lit("Welcome to the Rust Web Server!")), <<>>)

\* the emptiness check without the trim
hello_untrimmed(name) ==
    IF IsEmpty(name)
    THEN Out(Err(ValidationError(Lit("Name cannot be empty"))), <<"INFO", "WARN">>)
    ELSE IF ByteLen(name) > MAX_NAME_LEN
    THEN Out(Err(ValidationError(Lit("Name is too long (max 50 characters)"))),
             <<"INFO", "WARN">>)
    ELSE Out(Ok(OK, "text", Lit("Hello, ") \o name \o Lit("!")), <<"INFO">>)

hello(name) ==
    IF IsEmpty(Trim(name))
    THEN Out(Err(ValidationError(Lit("Name cannot be empty"))), <<"INFO", "WARN">>)
    ELSE IF ByteLen(name) > MAX_NAME_LEN
    THEN Out(Err(ValidationError(Lit("Name is too long (max 50 characters)"))),
             <<"INFO", "WARN">>)
    ELSE Out(Ok(OK, "text", Lit("Hello, ") \o name \o Lit("!")), <<"INFO">>)


\* Json<InputData>: both fields present; Json<PatchData>: each field an Option,
\* modelled as a sequence of length 0 (None) or 1 (Some)
Payload(name, age) == [name |-> name, age |-> age]

Some(x) == <<x>>

None == <<>>

handle_post(payload) ==
    LET name == payload.name[1]
        age  == payload.age[1]
    IN  IF IsEmpty(Trim(name))
        THEN Out(Err(ValidationError(Lit("Name cannot be empty"))), <<"INFO", "WARN">>)
        ELSE IF ByteLen(name) > MAX_NAME_LEN
        THEN Out(Err(ValidationError(Lit("Name is too long (max 50 characters)"))),
                 <<"INFO">>)
        ELSE IF age = 0 \/ age > MAX_AGE
        THEN Out(Err(ValidationError(Lit("Invalid age"))), <<"INFO", "WARN">>)
        ELSE Out(Ok(CREATED, "message",
                    Lit("Hello, ") \o name \o Lit("! You are ") \o FmtU8(age)
                        \o Lit(" years old.")),
                 <<"INFO">>)

\* the age check without the test for 0
handle_put_age0(payload) ==
    LET name == payload.name[1]
        age  == payload.age[1]
    IN  IF IsEmpty(Trim(name))
        THEN Out(Err(ValidationError(Lit("Name cannot be empty"))), <<"INFO", "WARN">>)
        ELSE IF ByteLen(name) > MAX_NAME_LEN
        THEN Out(Err(ValidationError(Lit("Name is too long (max 50 characters)"))),
                 <<"INFO">>)
        ELSE IF age > MAX_AGE
        THEN Out(Err(ValidationError(Lit("Invalid age"))), <<"INFO", "WARN">>)
        ELSE Out(Ok(OK, "message",
                    Lit("Hello, ") \o name \o Lit("! You are ") \o FmtU8(age)
                        \o Lit(" years old.")),
                 <<"INFO">>)

handle_put(payload) ==
    LET name == payload.name[1]
        age  == payload.age[1]
    IN  IF IsEmpty(Trim(name))
        THEN Out(Err(ValidationError(Lit("Name cannot be empty"))), <<"INFO", "WARN">>)
        ELSE IF ByteLen(name) > MAX_NAME_LEN
        THEN Out(Err(ValidationError(Lit("Name is too long (max 50 characters)"))),
                 <<"INFO">>)
        ELSE IF age = 0 \/ age > MAX_AGE
        THEN Out(Err(ValidationError(Lit("Invalid age"))), <<"INFO", "WARN">>)
        ELSE Out(Ok(OK, "message",
                    Lit("Hello, ") \o name \o Lit("! You are ") \o FmtU8(age)
                        \o Lit(" years old.")),
                 <<"INFO">>)

\* lines 232-245: Some(<<error>>) when a supplied name is rejected
patch_name_check(payload) ==
    IF payload.name = None THEN None
    ELSE IF IsEmpty(Trim(payload.name[1]))
    THEN Some(Out(Err(ValidationError(Lit("Name cannot be empty"))), <<"INFO", "WARN">>))
    ELSE IF ByteLen(payload.name[1]) > MAX_NAME_LEN
    THEN Some(Out(Err(ValidationError(Lit("Name is too long (max 50 characters)"))),
                  <<"INFO">>))
    ELSE None

\* lines 248-254: Some(<<error>>) when a supplied age is rejected
patch_age_check(payload) ==
    IF payload.age # None /\ (payload.age[1] = 0 \/ payload.age[1] > MAX_AGE)
    THEN Some(Out(Err(ValidationError(Lit("Invalid age"))),
                  <<"INFO">> \o (IF payload.name # None THEN <<"INFO">> ELSE <<>>)
                      \o <<"WARN">>))
    ELSE None

\* the match with (None, None) answered as a success
patch_message_noop(payload) ==
    LET lines == <<"INFO">> \o (IF payload.name # None THEN <<"INFO">> ELSE <<>>)
                    \o (IF payload.age # None THEN <<"INFO">> ELSE <<>>)
    IN  IF payload.name # None /\ payload.age # None
        THEN Out(Ok(OK, "message",
                    Lit("Updated: ") \o payload.name[1] \o Lit("! You are ")
                        \o FmtU8(payload.age[1]) \o Lit(" years old.")), lines)
        ELSE IF payload.name # None
        THEN Out(Ok(OK, "message", Lit("Updated name to: ") \o payload.name[1]), lines)
        ELSE IF payload.age # None
        THEN Out(Ok(OK, "message", Lit("Updated age to: ") \o FmtU8(payload.age[1])), lines)
        ELSE Out(Ok(OK, "message", Lit("Nothing to update")), lines)

\* lines 257-269: the match on (name, age)
patch_message(payload) ==
    LET lines == <<"INFO">> \o (IF payload.name # None THEN <<"INFO">> ELSE <<>>)
                    \o (IF payload.age # None THEN <<"INFO">> ELSE <<>>)
    IN  IF payload.name # None /\ payload.age # None
        THEN Out(Ok(OK, "message",
                    Lit("Updated: ") \o payload.name[1] \o Lit("! You are ")
                        \o FmtU8(payload.age[1]) \o Lit(" years old.")), lines)
        ELSE IF payload.name # None
        THEN Out(Ok(OK, "message", Lit("Updated name to: ") \o payload.name[1]), lines)
        ELSE IF payload.age # None
        THEN Out(Ok(OK, "message", Lit("Updated age to: ") \o FmtU8(payload.age[1])), lines)
        ELSE Out(Err(ValidationError(Lit("At least one field must be provided"))),
                 <<"INFO", "WARN">>)

handle_patch(payload) ==
    LET nameErr == patch_name_check(payload)
        ageErr  == patch_age_check(payload)
    IN  IF nameErr # None THEN nameErr[1]
        ELSE IF ageErr # None THEN ageErr[1]
        ELSE patch_message(payload)

\* the delete handler with the length check of the other handlers
handle_delete_limited(id) ==
    IF IsEmpty(Trim(id))
    THEN Out(Err(ValidationError(Lit("ID cannot be empty"))), <<"INFO", "WARN">>)
    ELSE IF ByteLen(id) > MAX_NAME_LEN
    THEN Out(Err(ValidationError(Lit("ID is too long"))), <<"INFO", "WARN">>)
    ELSE Out(Ok(OK, "message",
                Lit("Resource with ID '") \o id \o Lit("' has been deleted")),
             <<"INFO", "INFO">>)

\* a delete that remembers: a second delete of an id already deleted is refused
handle_delete_once(id) ==
    IF IsEmpty(Trim(id))
    THEN Out(Err(ValidationError(Lit("ID cannot be empty"))), <<"INFO", "WARN">>)
    ELSE IF \E h \in history.answered :
                h.req.method = "DELETE" /\ h.req.path = <<Lit("delete"), id>>
    THEN Out(Err(NotFound(Lit("No such resource"))), <<"INFO", "WARN">>)
    ELSE Out(Ok(OK, "message",
                Lit("Resource with ID '") \o id \o Lit("' has been deleted")),
             <<"INFO", "INFO">>)

handle_delete(id) ==
    IF IsEmpty(Trim(id))
    THEN Out(Err(ValidationError(Lit("ID cannot be empty"))), <<"INFO", "WARN">>)
    ELSE Out(Ok(OK, "message",
                Lit("Resource with ID '") \o id \o Lit("' has been deleted")),
             <<"INFO", "INFO">>)

----------------------------------------------------------------------------
(* Router *)

\* a request: the method, the path as its percent-decoded segments ("/" is the
\* empty sequence, "/hello/" is <<"hello", "">>), and the decoded JSON body
Request(method, path, body) == [method |-> method, path |-> path, body |-> body]

NoBody == Payload(None, None)

\* a path parameter ":x" matches one segment, which must not be empty
MatchesParam(path, prefix) ==
    Len(path) = 2 /\ path[1] = Lit(prefix) /\ path[2] # EmptyStr

\* what the router made of a request: the handler it ran ("none": the router
\* answered itself), the handler's output and the response that went out
Routed(handler, out) ==
    [handler |-> handler, out |-> out, resp |-> ResultResponse(out.res)]

Unrouted(status) ==
    [handler |-> "none", out |-> Out(Ok(status, "empty", EmptyStr), <<>>),
     resp |-> Response(status, "empty", EmptyStr)]

Route(req) ==
    IF req.path = <<>>
    THEN IF req.method = "GET" THEN Routed("root", root)
         ELSE Unrouted(METHOD_NOT_ALLOWED)
    ELSE IF MatchesParam(req.path, "hello")
    THEN IF req.method = "GET" THEN Routed("hello", hello(req.path[2]))
         ELSE Unrouted(METHOD_NOT_ALLOWED)
    ELSE IF req.path = <<Lit("create")>>
    THEN IF req.method = "POST" THEN Routed("handle_post", handle_post(req.body))
         ELSE Unrouted(METHOD_NOT_ALLOWED)
    ELSE IF req.path = <<Lit("update")>>
    THEN IF req.method = "PUT" THEN Routed("handle_put", handle_put(req.body))
         ELSE IF req.method = "PATCH"
         THEN Routed("handle_patch", handle_patch(req.body))
         ELSE Unrouted(METHOD_NOT_ALLOWED)
    ELSE IF MatchesParam(req.path, "delete")
    THEN IF req.method = "DELETE" THEN Routed("handle_delete", handle_delete(req.path[2]))
         ELSE Unrouted(METHOD_NOT_ALLOWED)
    ELSE Unrouted(NOT_FOUND)

----------------------------------------------------------------------------
(* The inputs *)

NameUnits == {"a", " ", "U+00E9"}

RunLengths == {1, 26, 50}

Runs == {Seg(c, n) : c \in NameUnits, n \in RunLengths}

RECURSIVE NamesOfLen(_)
\* the strings of exactly k runs, no two adjacent runs of the same unit
NamesOfLen(k) ==
    IF k = 0 THEN {EmptyStr}
    ELSE {Append(sr[1], sr[2]) :
            sr \in {x \in NamesOfLen(k - 1) \X Runs :
                      x[1] = <<>> \/ x[1][Len(x[1])].c # x[2].c}}

\* every decoded string the model sends: the empty one, whitespace only,
\* padded, multi-byte, and around the 50-byte limit
Names == UNION {NamesOfLen(k) : k \in 0..MaxRuns}

\* u8 values around the limits 1 and 120
Ages == {0, 1, 30, 120, 121, 255}

InputDatas == {Payload(Some(n), Some(a)) : n \in Names, a \in Ages}

PatchDatas == {Payload(n, a) : n \in {None} \cup {Some(x) : x \in Names},
                               a \in {None} \cup {Some(x) : x \in Ages}}

\* requests whose method and path match no route, or only the path
StrayRequests ==
    { Request("POST", <<>>, NoBody),
      Request("DELETE", <<Lit("hello"), Lit("a")>>, NoBody),
      Request("GET", <<Lit("create")>>, NoBody),
      Request("GET", <<Lit("update")>>, NoBody),
      Request("GET", <<Lit("delete"), Lit("a")>>, NoBody),
      Request("GET", <<Lit("hello")>>, NoBody),
      Request("GET", <<Lit("nope")>>, NoBody) }

Requests ==
    {Request("GET", <<>>, NoBody)}
    \cup {Request("GET", <<Lit("hello"), n>>, NoBody) : n \in Names}
    \cup {Request("POST", <<Lit("create")>>, b) : b \in InputDatas}
    \cup {Request("PUT", <<Lit("update")>>, b) : b \in InputDatas}
    \cup {Request("PATCH", <<Lit("update")>>, b) : b \in PatchDatas}
    \cup {Request("DELETE", <<Lit("delete"), n>>, NoBody) : n \in Names}
    \cup StrayRequests

\* the requests of the concurrent specification
ConcRequests ==
    { Request("GET", <<>>, NoBody),
      Request("GET", <<Lit("hello"), <<Seg("a", 1)>> >>, NoBody),
      Request("DELETE", <<Lit("delete"), <<Seg("a", 1)>> >>, NoBody),
      Request("DELETE", <<Lit("delete"), <<Seg(" ", 1)>> >>, NoBody),
      Request("POST", <<Lit("create")>>, Payload(Some(<<Seg("a", 1)>>), Some(30))) }

\* the errors the mapper is applied to
AppErrors ==
    {ValidationError(m) : m \in {EmptyStr, Lit("bad input")}}
    \cup {NotFound(m) : m \in {EmptyStr, Lit("no such thing")}}
    \cup {InternalError}

----------------------------------------------------------------------------
(* State *)

\* pc: where main is.  bind_result: what binding 127.0.0.1:3000 came to.
\* exit_code: <<>> while the process runs, then <<code>>.  log: the tracing lines
\* of main (stdout).  stderr: what the panic hook wrote.  inflight: per
\* connection, <<>> when idle, <<req>> once a request is decoded, <<req, routed>>
\* once its task has produced the response, and <<>> again when the response is
\* written and the values are dropped.  mapped: the last error handed to
\* into_response, with the response.  history (an observer's record, no state of
\* the program): every (request, response) pair answered, and the requests
\* answered more than once.

Init ==
    /\ pc = "init"
    /\ bind_result = "pending"
    /\ exit_code = <<>>
    /\ log = <<>>
    /\ stderr = <<>>
    /\ mapped = <<>>
    /\ inflight = [i \in 1..MaxInflight |-> <<>>]
    /\ history = [answered |-> {}, repeated |-> {}]

----------------------------------------------------------------------------
(* main *)

\* lines 55-69: the subscriber is installed, the router built, "Server running" logged
Start ==
    /\ pc = "init"
    /\ pc' = "binding"
    /\ log' = Append(log, "INFO Server running")
    /\ UNCHANGED <<bind_result, exit_code, stderr, mapped, inflight, history>>

\* line 75, Server::bind succeeds: the server serves
BindOk ==
    /\ pc = "binding"
    /\ pc' = "serving"
    /\ bind_result' = "ok"
    /\ UNCHANGED <<exit_code, log, stderr, mapped, inflight, history>>

\* line 75, the address cannot be bound: Server::bind (hyper's, re-exported by
\* axum) panics with "error binding to ..."; it is try_bind that returns a Result.
\* The panic hook writes the message to stderr; the match of lines 75-84 is not
\* reached.
BindPanic ==
    /\ pc = "binding"
    /\ pc' = "panicked"
    /\ bind_result' = "failed"
    /\ stderr' = Append(stderr, "panicked: error binding")
    /\ UNCHANGED <<exit_code, log, mapped, inflight, history>>

\* the panic unwinds out of main: the process ends with status 101
PanicExit ==
    /\ pc = "panicked"
    /\ pc' = "exited"
    /\ exit_code' = <<101>>
    /\ UNCHANGED <<bind_result, log, stderr, mapped, inflight, history>>

\* line 77: the serve future resolves to Err(e)
ServeErr ==
    /\ pc = "serving"
    /\ pc' = "serve_err"
    /\ UNCHANGED <<bind_result, exit_code, log, stderr, mapped, inflight, history>>

\* line 81
LogServerError ==
    /\ pc = "serve_err"
    /\ pc' = "err_logged"
    /\ log' = Append(log, "ERROR Server error")
    /\ UNCHANGED <<bind_result, exit_code, stderr, mapped, inflight, history>>

\* line 82
ExitFailure ==
    /\ pc = "err_logged"
    /\ pc' = "exited"
    /\ exit_code' = <<1>>
    /\ UNCHANGED <<bind_result, log, stderr, mapped, inflight, history>>

\* line 79: the serve future resolves to Ok
ServeOk ==
    /\ pc = "serving"
    /\ pc' = "shut_down"
    /\ log' = Append(log, "INFO Server shut down gracefully")
    /\ UNCHANGED <<bind_result, exit_code, stderr, mapped, inflight, history>>

\* main returns
MainReturn ==
    /\ pc = "shut_down"
    /\ pc' = "exited"
    /\ exit_code' = <<0>>
    /\ UNCHANGED <<bind_result, log, stderr, mapped, inflight, history>>

----------------------------------------------------------------------------
(* Requests *)

\* connection i delivers a request, one of the set reqs, decoded; its task has not
\* run yet
Accept(i, reqs) ==
    /\ pc = "serving"
    /\ inflight[i] = <<>>
    /\ \E req \in reqs : inflight' = [inflight EXCEPT ![i] = <<req>>]
    /\ UNCHANGED <<pc, bind_result, exit_code, log, stderr, mapped, history>>

\* the task of connection i runs: the router, the handler, the response.  A
\* handler has no await point, so this is one step.
Answer(i) ==
    /\ pc = "serving"
    /\ Len(inflight[i]) = 1
    /\ inflight' = [inflight EXCEPT ![i] = <<inflight[i][1], Route(inflight[i][1])>>]
    /\ UNCHANGED <<pc, bind_result, exit_code, log, stderr, mapped>>

Handle(i) == Answer(i) /\ UNCHANGED history

\* the same step, with the observer recording the answer
Respond(i) ==
    /\ Answer(i)
    /\ LET req == inflight[i][1]
           entry == [req |-> req, resp |-> Route(req).resp]
       IN  history' = [answered |-> history.answered \cup {entry},
                       repeated |-> IF \E h \in history.answered : h.req = req
                                    THEN history.repeated \cup {req}
                                    ELSE history.repeated]

\* the response is written, the request's values are dropped
Close(i) ==
    /\ Len(inflight[i]) = 2
    /\ inflight' = [inflight EXCEPT ![i] = <<>>]
    /\ UNCHANGED <<pc, bind_result, exit_code, log, stderr, mapped, history>>

\* into_response applied to an error
MapError(e) ==
    /\ mapped' = <<[err |-> e, resp |-> into_response(e)]>>
    /\ UNCHANGED <<pc, bind_result, exit_code, log, stderr, inflight, history>>

----------------------------------------------------------------------------
(* Specifications *)

\* the server, one request at a time
Next ==
    \/ Start
    \/ BindOk
    \/ BindPanic
    \/ PanicExit
    \/ ServeErr
    \/ LogServerError
    \/ ExitFailure
    \/ ServeOk
    \/ MainReturn
    \/ Accept(1, Requests)
    \/ Handle(1)
    \/ Close(1)

Spec == Init /\ [][Next]_vars

\* the server with requests in flight on several connections
NextConc ==
    \/ Start
    \/ BindOk
    \/ \E i \in 1..MaxInflight : Accept(i, ConcRequests)
    \/ \E i \in 1..MaxInflight : Respond(i)
    \/ \E i \in 1..MaxInflight : Close(i)

SpecConc == Init /\ [][NextConc]_vars

\* the handlers and the error mapper
NextErr ==
    \/ Start
    \/ BindOk
    \/ Accept(1, Requests)
    \/ Handle(1)
    \/ Close(1)
    \/ \E e \in AppErrors : MapError(e)

SpecErr == Init /\ [][NextErr]_vars

----------------------------------------------------------------------------
(* Properties *)

Conns == 1..MaxInflight

Answered(i) == Len(inflight[i]) = 2

ReqOf(i) == inflight[i][1]

AnsOf(i) == inflight[i][2]

IsHello(req) == req.method = "GET" /\ Len(req.path) = 2 /\ req.path[1] = Lit("hello")

IsDelete(req) == req.method = "DELETE" /\ Len(req.path) = 2 /\ req.path[1] = Lit("delete")

IsCreate(req) == req.method = "POST" /\ req.path = <<Lit("create")>>

IsPut(req) == req.method = "PUT" /\ req.path = <<Lit("update")>>

IsPatch(req) == req.method = "PATCH" /\ req.path = <<Lit("update")>>

\* U+00E9 is one character
UnitChars(c) == IF c = "U+00E9" THEN 1 ELSE Len(c)

RECURSIVE CharCount(_)
\* the length of a string in characters, which is what the rules are worded in
CharCount(s) == IF s = <<>> THEN 0
                ELSE Head(s).n * UnitChars(Head(s).c) + CharCount(Tail(s))

\* the rules as the specification words them: in characters
NameValid(name) == ~IsEmpty(Trim(name)) /\ CharCount(name) <= 50

AgeValid(age) == age >= 1 /\ age <= 120

IsError(resp) == resp.status = 400 /\ resp.kind = "error"

\* C1: GET /hello/{name} answers 200 with the text "Hello, {name}!" for every
\* name whose trimmed part has 1 to 50 characters.
C1_HelloGreetsTrimmedNames ==
    \A i \in Conns :
        (Answered(i) /\ IsHello(ReqOf(i))
            /\ CharCount(Trim(ReqOf(i).path[2])) \in 1..50)
        => AnsOf(i).resp = Response(200, "text",
                                    Lit("Hello, ") \o ReqOf(i).path[2] \o Lit("!"))

\* C2 as claimed: GET /hello/ with an empty or whitespace-only name answers 400.
C2_EmptyOrBlankNameIs400 ==
    \A i \in Conns :
        (Answered(i) /\ IsHello(ReqOf(i)) /\ IsEmpty(Trim(ReqOf(i).path[2])))
        => AnsOf(i).resp.status = 400

\* C2 as amended: a whitespace-only name reaches the handler and answers 400 with
\* the error "Name cannot be empty"; an empty name segment matches no route, no
\* handler runs and the router answers 404 with an empty body.
C2_BlankNameIs400EmptyIs404 ==
    \A i \in Conns :
        (Answered(i) /\ IsHello(ReqOf(i)) /\ IsEmpty(Trim(ReqOf(i).path[2])))
        => IF ReqOf(i).path[2] = EmptyStr
           THEN AnsOf(i).handler = "none"
                /\ AnsOf(i).resp = Response(404, "empty", EmptyStr)
           ELSE AnsOf(i).handler = "hello"
                /\ AnsOf(i).resp = Response(400, "error", Lit("Name cannot be empty"))

C2_Witness ==
    \E i \in Conns :
        /\ Answered(i) /\ IsHello(ReqOf(i))
        /\ ReqOf(i).path[2] = <<Seg(" ", 26)>>
        /\ AnsOf(i).resp.status = 400

\* C3: POST /create answers 201 with the message "Hello, {name}! You are {age}
\* years old." exactly when the name is not empty after trimming, has at most 50
\* characters and the age is in 1..120; otherwise it answers 400 with an error.
C3_CreateAcceptsExactlyValid ==
    \A i \in Conns :
        (Answered(i) /\ IsCreate(ReqOf(i)))
        => LET name == ReqOf(i).body.name[1]
               age  == ReqOf(i).body.age[1]
           IN  IF NameValid(name) /\ AgeValid(age)
               THEN AnsOf(i).resp =
                        Response(201, "message",
                                 Lit("Hello, ") \o name \o Lit("! You are ")
                                     \o Lit(ToString(age)) \o Lit(" years old."))
               ELSE IsError(AnsOf(i).resp)

\* the response of one handler with a success status replaced by another
WithSuccessStatus(resp, from, to) ==
    IF resp.status = from THEN [resp EXCEPT !.status = to] ELSE resp

\* C4: PUT /update and POST /create accept and reject the same inputs and answer
\* with the same body; only the success status differs, 200 against 201.
C4_PutAgreesWithPost ==
    \A i \in Conns :
        /\ (Answered(i) /\ IsPut(ReqOf(i)))
           => /\ AnsOf(i).resp.status \in {200, 400}
              /\ WithSuccessStatus(AnsOf(i).resp, 200, 201)
                    = ResultResponse(handle_post(ReqOf(i).body).res)
        /\ (Answered(i) /\ IsCreate(ReqOf(i)))
           => /\ AnsOf(i).resp.status \in {201, 400}
              /\ WithSuccessStatus(AnsOf(i).resp, 201, 200)
                    = ResultResponse(handle_put(ReqOf(i).body).res)

C4_Witness ==
    \E i \in Conns :
        /\ Answered(i) /\ IsPut(ReqOf(i))
        /\ ReqOf(i).body = Payload(Some(<<Seg("a", 50)>>), Some(120))
        /\ AnsOf(i).resp.status = 200

\* C5: a PATCH with neither field answers 400 with an error, never 200; a PATCH
\* with a supplied field that breaks its rule answers 400 whatever the other
\* field is.
C5_PatchRejects ==
    \A i \in Conns :
        (Answered(i) /\ IsPatch(ReqOf(i)))
        => LET b == ReqOf(i).body
           IN  /\ (b.name = None /\ b.age = None) => IsError(AnsOf(i).resp)
               /\ (b.name # None /\ ~NameValid(b.name[1])) => IsError(AnsOf(i).resp)
               /\ (b.age # None /\ ~AgeValid(b.age[1])) => IsError(AnsOf(i).resp)

C5_Witness ==
    \E i \in Conns :
        /\ Answered(i) /\ IsPatch(ReqOf(i))
        /\ ReqOf(i).body = Payload(Some(<<Seg("a", 1)>>), Some(0))
        /\ IsError(AnsOf(i).resp)

\* C6: a PATCH whose supplied fields are all valid answers 200 with a message of
\* exactly the supplied fields.
C6_PatchMessageOfSuppliedFields ==
    \A i \in Conns :
        (Answered(i) /\ IsPatch(ReqOf(i)))
        => LET b == ReqOf(i).body
               nameOk == b.name = None \/ NameValid(b.name[1])
               ageOk  == b.age = None \/ AgeValid(b.age[1])
           IN  (nameOk /\ ageOk /\ (b.name # None \/ b.age # None))
               => AnsOf(i).resp =
                    Response(200, "message",
                        IF b.name # None /\ b.age # None
                        THEN Lit("Updated: ") \o b.name[1] \o Lit("! You are ")
                                \o Lit(ToString(b.age[1])) \o Lit(" years old.")
                        ELSE IF b.name # None
                        THEN Lit("Updated name to: ") \o b.name[1]
                        ELSE Lit("Updated age to: ") \o Lit(ToString(b.age[1])))

DeletedMessage(id) == Lit("Resource with ID '") \o id \o Lit("' has been deleted")

\* C7 as claimed: DELETE /delete/{id} answers 200 with the message for every id
\* not empty after trimming, and 400 for the empty id.
C7_DeleteEmptyIdIs400 ==
    \A i \in Conns :
        (Answered(i) /\ IsDelete(ReqOf(i)))
        => LET id == ReqOf(i).path[2]
           IN  /\ ~IsEmpty(Trim(id))
                  => AnsOf(i).resp = Response(200, "message", DeletedMessage(id))
               /\ id = EmptyStr => AnsOf(i).resp.status = 400

\* C7 as amended: 200 with the message for every id not empty after trimming,
\* of any length; 400 "ID cannot be empty" for a whitespace-only id; for the
\* empty id no route matches and the router answers 404 with an empty body.
C7_DeleteEmptyIdIs404 ==
    \A i \in Conns :
        (Answered(i) /\ IsDelete(ReqOf(i)))
        => LET id == ReqOf(i).path[2]
           IN  IF ~IsEmpty(Trim(id))
               THEN AnsOf(i).resp = Response(200, "message", DeletedMessage(id))
               ELSE IF id # EmptyStr
               THEN AnsOf(i).handler = "handle_delete"
                    /\ AnsOf(i).resp = Response(400, "error", Lit("ID cannot be empty"))
               ELSE AnsOf(i).handler = "none"
                    /\ AnsOf(i).resp = Response(404, "empty", EmptyStr)

C7_Witness ==
    \E i \in Conns :
        /\ Answered(i) /\ IsDelete(ReqOf(i))
        /\ ReqOf(i).path[2] = <<Seg(" ", 1), Seg("a", 50), Seg("U+00E9", 26)>>
        /\ AnsOf(i).resp.status = 200

\* C8: the mapper sends ValidationError(m) to 400 {error: m}, NotFound(m) to 404
\* {error: m} and InternalError to 500 {error: "Internal Server Error"}; and a
\* handler the router runs returns Ok or a ValidationError, so that its response
\* has status 200, 201 or 400.
C8_ErrorMapping ==
    /\ mapped # <<>>
       => LET e == mapped[1].err
              r == mapped[1].resp
          IN  /\ e.tag = "ValidationError" => r = Response(400, "error", e.msg)
              /\ e.tag = "NotFound" => r = Response(404, "error", e.msg)
              /\ e.tag = "InternalError"
                 => r = Response(500, "error", Lit("Internal Server Error"))
    /\ \A i \in Conns :
        (Answered(i) /\ AnsOf(i).handler # "none")
        => /\ AnsOf(i).out.res.ok \/ AnsOf(i).out.res.err.tag = "ValidationError"
           /\ AnsOf(i).resp.status \in {200, 201, 400}
           /\ ~AnsOf(i).out.res.ok => AnsOf(i).resp =
                 Response(400, "error", AnsOf(i).out.res.err.msg)

C8_Witness ==
    /\ mapped # <<>>
    /\ mapped[1].err = NotFound(Lit("no such thing"))
    /\ \E i \in Conns :
        /\ Answered(i) /\ IsPatch(ReqOf(i)) /\ ReqOf(i).body = NoBody
        /\ AnsOf(i).resp.status = 400

\* C9: a GET or DELETE request repeated gets the same status and body, whatever
\* was answered before it or is in flight beside it.
C9_RepeatedRequestSameResponse ==
    \A h1, h2 \in history.answered :
        (h1.req = h2.req /\ h1.req.method \in {"GET", "DELETE"}) => h1.resp = h2.resp

C9_Witness ==
    /\ \E r \in history.repeated : IsDelete(r) /\ r.path[2] = <<Seg("a", 1)>>
    /\ \E r \in history.repeated : IsHello(r)
    /\ \E h \in history.answered : h.req.method = "POST"
    /\ \E h \in history.answered : h.resp.status = 400
    /\ \E i \in Conns : Len(inflight[i]) = 1 /\ IsDelete(inflight[i][1])

\* C10: after a bind failure the server never serves, and the process exits only
\* with an error logged before and with a status other than 0.
C10_BindFailureLoggedThenExit ==
    bind_result = "failed"
    => /\ pc # "serving"
       /\ pc = "exited"
          => /\ exit_code # <<0>>
             /\ \E k \in 1..Len(log) : log[k] = "ERROR Server error"

====
